---- MODULE Spec2Model ----
(***************************************************************************)
(* Tic Tac Toe (src/tic_tac_toe_frontend/src/App.js): the App component's  *)
(* four useState cells, what its last render computed and handed to the    *)
(* handlers and to Board, the post-render effect that sets gameOver, and   *)
(* the pure evaluator calculateWinner.                                     *)
(*                                                                         *)
(* Scheduling.  A click or a restart is one discrete event: React runs the *)
(* handler against the closure of the last render and re-renders before    *)
(* the event returns, so handler and re-render are one step, and the       *)
(* closure's squares, isXNext and history always equal the state.  The     *)
(* effect of a render runs after that render and before the next handler   *)
(* or render.  The update the effect makes (setGameOver) is rendered by a  *)
(* later render of its own, and an event may be handled before it: the     *)
(* gameOver the handlers see (isGameOver) can lag behind the state.        *)
(***************************************************************************)
EXTENDS Integers, Sequences, FiniteSets

VARIABLES
  squares,        \* useState(Array(9).fill(null))
  isXNext,        \* useState(true)
  gameOver,       \* useState(false)
  history,        \* useState([])
  winResult,      \* calculateWinner(squares) of the last render
  isGameOver,     \* gameOver as the last render saw it (handler closure, Board prop)
  effectPending,  \* the last render's effect has not run yet
  lastStep        \* the last step that changed the state

vars ==
  <<squares, isXNext, gameOver, history, winResult, isGameOver, effectPending, lastStep>>

\* JS null: an empty cell, no result.
Null == "null"

\* Array(9)
BoardSize == 9

Cells == 0 .. (BoardSize - 1)

Marks == {"X", "O"}

\* Array(9).fill(null)
EmptyBoard == [i \in Cells |-> Null]

(***************************************************************************)
(* calculateWinner                                                         *)
(***************************************************************************)

\* A changed line set: the second diagonal is mistyped.
linesWrongDiagonal ==
  << <<0, 1, 2>>, <<3, 4, 5>>, <<6, 7, 8>>,
     <<0, 3, 6>>, <<1, 4, 7>>, <<2, 5, 8>>,
     <<0, 4, 8>>, <<2, 4, 7>> >>

\* The 8 triples of calculateWinner, in the order of the source.
lines ==
  << <<0, 1, 2>>, <<3, 4, 5>>, <<6, 7, 8>>,
     <<0, 3, 6>>, <<1, 4, 7>>, <<2, 5, 8>>,
     <<0, 4, 8>>, <<2, 4, 6>> >>

\* calculateWinner's "return null".
NoWin == [winner |-> Null, line |-> <<>>]

\* The test of one triple:
\* squares[a] && squares[a] === squares[b] && squares[a] === squares[c]
LineMatches(sq, l) ==
  /\ sq[l[1]] # Null
  /\ sq[l[1]] = sq[l[2]]
  /\ sq[l[1]] = sq[l[3]]

\* A changed loop: it keeps scanning and returns the last matching triple.
RECURSIVE ScanLinesLast(_, _)
ScanLinesLast(sq, k) ==
  IF k > Len(lines) THEN NoWin
  ELSE LET rest == ScanLinesLast(sq, k + 1)
       IN  IF rest # NoWin THEN rest
           ELSE IF LineMatches(sq, lines[k])
                THEN [winner |-> sq[lines[k][1]], line |-> lines[k]]
                ELSE NoWin

\* The for-loop of calculateWinner from the k-th triple on: the first match returns.
RECURSIVE ScanLines(_, _)
ScanLines(sq, k) ==
  IF k > Len(lines) THEN NoWin
  ELSE IF LineMatches(sq, lines[k])
       THEN [winner |-> sq[lines[k][1]], line |-> lines[k]]
       ELSE ScanLines(sq, k + 1)

calculateWinner(sq) == ScanLines(sq, 1)

(***************************************************************************)
(* App: what a render computes                                             *)
(***************************************************************************)

\* squares.every(Boolean)
isBoardFull == \A i \in Cells : squares[i] # Null

\* A changed status: the full board is tested before the winner.
statusDrawFirst ==
  IF isBoardFull THEN "Draw!"
  ELSE IF winResult # NoWin THEN "Winner: " \o winResult.winner
  ELSE "Next turn: " \o (IF isXNext THEN "X" ELSE "O")

\* The status string of the render.
status ==
  IF winResult # NoWin THEN "Winner: " \o winResult.winner
  ELSE IF isBoardFull THEN "Draw!"
  ELSE "Next turn: " \o (IF isXNext THEN "X" ELSE "O")

\* A changed Board: the game-over prop is not looked at.
disabledOnlyOccupied(idx) == squares[idx] # Null

\* Board: the disabled prop of the Square of cell idx, disabled={!!val || isGameOver}.
disabled(idx) == squares[idx] # Null \/ isGameOver

Init ==
  /\ squares = EmptyBoard
  /\ isXNext = TRUE
  /\ gameOver = FALSE
  /\ history = <<>>
  /\ winResult = calculateWinner(EmptyBoard)
  /\ isGameOver = FALSE
  /\ effectPending = TRUE
  /\ lastStep = "mount"

(***************************************************************************)
(* App: the handlers, the effect, the re-render                            *)
(***************************************************************************)

\* A changed guard: the occupied-cell test is missing.
ClickIgnoredOnlyGameOver(idx) == isGameOver

\* The guard of handleSquareClick: if (squares[idx] || gameOver) return;
ClickIgnored(idx) == squares[idx] # Null \/ isGameOver

\* A changed nextSquares: the mark is always X.
NextSquaresAlwaysX(idx) == [squares EXCEPT ![idx] = "X"]

\* nextSquares of handleSquareClick.
NextSquares(idx) == [squares EXCEPT ![idx] = IF isXNext THEN "X" ELSE "O"]

\* A changed handler: setIsXNext(!isXNext) is missing.
HandleSquareClickNoFlip(idx) ==
  /\ ~effectPending
  /\ IF ClickIgnored(idx)
     THEN UNCHANGED vars
     ELSE /\ squares' = NextSquares(idx)
          /\ history' = Append(history, NextSquares(idx))
          /\ UNCHANGED <<gameOver, isXNext>>
          /\ winResult' = calculateWinner(squares')
          /\ isGameOver' = gameOver
          /\ effectPending' = TRUE
          /\ lastStep' = "click"

\* A changed handler: the board before the move is appended to the history.
HandleSquareClickOldBoard(idx) ==
  /\ ~effectPending
  /\ IF ClickIgnored(idx)
     THEN UNCHANGED vars
     ELSE /\ squares' = NextSquares(idx)
          /\ isXNext' = ~isXNext
          /\ history' = Append(history, squares)
          /\ UNCHANGED gameOver
          /\ winResult' = calculateWinner(squares')
          /\ isGameOver' = gameOver
          /\ effectPending' = TRUE
          /\ lastStep' = "click"

HandleSquareClick(idx) ==
  /\ ~effectPending
  /\ IF ClickIgnored(idx)
     THEN UNCHANGED vars
     ELSE /\ squares' = NextSquares(idx)
          /\ isXNext' = ~isXNext
          /\ history' = Append(history, NextSquares(idx))
          /\ UNCHANGED gameOver
          /\ winResult' = calculateWinner(squares')
          /\ isGameOver' = gameOver
          /\ effectPending' = TRUE
          /\ lastStep' = "click"

\* A changed restart: setIsXNext(true) is missing.
HandleRestartKeepsTurn ==
  /\ ~effectPending
  /\ squares' = EmptyBoard
  /\ gameOver' = FALSE
  /\ history' = <<>>
  /\ winResult' = calculateWinner(squares')
  /\ isGameOver' = gameOver'
  /\ effectPending' = TRUE
  /\ lastStep' = "restart"
  /\ UNCHANGED isXNext

HandleRestart ==
  /\ ~effectPending
  /\ squares' = EmptyBoard
  /\ isXNext' = TRUE
  /\ gameOver' = FALSE
  /\ history' = <<>>
  /\ winResult' = calculateWinner(squares')
  /\ isGameOver' = gameOver'
  /\ effectPending' = TRUE
  /\ lastStep' = "restart"

\* A changed effect: the full board is not looked at.
EffectOnlyWinner ==
  /\ effectPending
  /\ gameOver' = (winResult # NoWin)
  /\ effectPending' = FALSE
  /\ lastStep' = "effect"
  /\ UNCHANGED <<squares, isXNext, history, winResult, isGameOver>>

\* React.useEffect(() => { if (winResult || isBoardFull) setGameOver(true);
\*                         else setGameOver(false); }, [squares, winResult, isBoardFull])
Effect ==
  /\ effectPending
  /\ gameOver' = (winResult # NoWin \/ isBoardFull)
  /\ effectPending' = FALSE
  /\ lastStep' = "effect"
  /\ UNCHANGED <<squares, isXNext, history, winResult, isGameOver>>

\* The re-render that the effect's setGameOver schedules.  winResult is a fresh
\* object in every render that finds a winner, so the effect's dependencies change
\* then and the effect runs again.
Render ==
  /\ ~effectPending
  /\ isGameOver # gameOver
  /\ isGameOver' = gameOver
  /\ winResult' = calculateWinner(squares)
  /\ effectPending' = (winResult' # NoWin)
  /\ lastStep' = "render"
  /\ UNCHANGED <<squares, isXNext, gameOver, history>>

Next ==
  \/ \E idx \in Cells : HandleSquareClick(idx)
  \/ HandleRestart
  \/ Effect
  \/ Render

Spec == Init /\ [][Next]_vars

(***************************************************************************)
(* calculateWinner on every board: a render of any board in                *)
(* {null, X, O}^9, reached from the empty one cell by cell.                *)
(***************************************************************************)

Evaluate(idx, v) ==
  /\ squares' = [squares EXCEPT ![idx] = v]
  /\ winResult' = calculateWinner(squares')
  /\ lastStep' = "evaluate"
  /\ UNCHANGED <<isXNext, gameOver, history, isGameOver, effectPending>>

NextEval == \E idx \in Cells, v \in Marks \cup {Null} : Evaluate(idx, v)

SpecEval == Init /\ [][NextEval]_vars

(***************************************************************************)
(* Two clicks in one batch: handleSquareClick runs for idx1 and then for   *)
(* idx2 against the closure of the same render, and React renders once     *)
(* after both.  Every setState call passes a value computed from the       *)
(* closure, so of two calls on the same state cell the later one stands.   *)
(***************************************************************************)

HandleTwoClicks(idx1, idx2) ==
  /\ ~effectPending
  /\ IF ClickIgnored(idx1) /\ ClickIgnored(idx2)
     THEN UNCHANGED vars
     ELSE LET last == IF ClickIgnored(idx2) THEN idx1 ELSE idx2
          IN  /\ squares' = NextSquares(last)
              /\ isXNext' = ~isXNext
              /\ history' = Append(history, NextSquares(last))
              /\ UNCHANGED gameOver
              /\ winResult' = calculateWinner(squares')
              /\ isGameOver' = gameOver
              /\ effectPending' = TRUE
              /\ lastStep' = "batch"

\* The batches played are those of two different cells whose clicks both pass the
\* guard; a batch with an ignored click is a single click or none.
NextBatched ==
  \/ \E idx1, idx2 \in Cells :
       /\ idx1 # idx2
       /\ ~ClickIgnored(idx1)
       /\ ~ClickIgnored(idx2)
       /\ HandleTwoClicks(idx1, idx2)
  \/ HandleRestart
  \/ Effect
  \/ Render

SpecBatched == Init /\ [][NextBatched]_vars

(***************************************************************************)
(* The properties.  They state the board's lines and the decided boards on *)
(* their own, from the 8 triples the specification lists.                  *)
(***************************************************************************)

\* Rows, columns, diagonals, in the order the specification gives them.
FixedTriples ==
  << <<0, 1, 2>>, <<3, 4, 5>>, <<6, 7, 8>>,
     <<0, 3, 6>>, <<1, 4, 7>>, <<2, 5, 8>>,
     <<0, 4, 8>>, <<2, 4, 6>> >>

\* Triple t holds three equal non-empty marks on board sq.
Completed(sq, t) ==
  /\ sq[t[1]] \in Marks
  /\ sq[t[2]] = sq[t[1]]
  /\ sq[t[3]] = sq[t[1]]

HasLine(sq) == \E k \in DOMAIN FixedTriples : Completed(sq, FixedTriples[k])

Filled(sq) == \A i \in Cells : sq[i] \in Marks

\* The game is decided: a line is complete or all 9 cells are filled.
Decided(sq) == HasLine(sq) \/ Filled(sq)

TurnMark == IF isXNext THEN "X" ELSE "O"

\* The board after the clicks of seq, X first, on an empty board.
RECURSIVE BoardAfter(_)
BoardAfter(seq) ==
  IF seq = <<>> THEN EmptyBoard
  ELSE LET n == Len(seq)
       IN  [BoardAfter(SubSeq(seq, 1, n - 1)) EXCEPT
              ![seq[n]] = IF n % 2 = 1 THEN "X" ELSE "O"]

\* The history the accepted clicks of seq leave.
HistoryAfter(seq) == [k \in 1 .. Len(seq) |-> BoardAfter(SubSeq(seq, 1, k))]

\* C1: a click on an occupied cell, or any click while the game is decided (a line
\* is complete or all 9 cells are filled), leaves the board, the turn and the move
\* history unchanged.
C1_InvalidClickChangesNothing ==
  [][\A idx \in Cells :
       (HandleSquareClick(idx) /\ (squares[idx] # Null \/ Decided(squares)))
         => UNCHANGED <<squares, isXNext, history>>]_vars

\* C2: a click on an empty cell idx while the game is not decided is accepted:
\* the guard lets it through, afterwards cell idx holds the mark of the player whose
\* turn it was, every other cell is unchanged, and the turn is flipped.
C2_EmptyCellClickAccepted ==
  /\ [](~Decided(squares) =>
          \A idx \in Cells : squares[idx] = Null => ~ClickIgnored(idx))
  /\ [][~Decided(squares) =>
          \A idx \in Cells :
            (squares[idx] = Null /\ HandleSquareClick(idx))
              => /\ squares'[idx] = TurnMark
                 /\ \A j \in Cells \ {idx} : squares'[j] = squares[j]
                 /\ isXNext' = ~isXNext]_vars

\* C2's case: X and then O have each had a click accepted.
C2_Witness ==
  /\ lastStep = "click"
  /\ squares = BoardAfter(<<0, 4>>)
  /\ isXNext

\* C3: once a cell holds X or O it holds that mark in every later state, until a
\* restart: every step that changes a non-empty cell is a handleRestart.
C3_MarksStayUntilRestart ==
  [][(\E i \in Cells : squares[i] # Null /\ squares'[i] # squares[i])
       => HandleRestart]_vars

\* C3's case: the first mark of a game has survived two later clicks.
C3_Witness ==
  /\ lastStep = "click"
  /\ Len(history) = 3
  /\ \E i \in Cells : history[1][i] = "X" /\ squares[i] = "X"

\* The state of the game after construction.
InitialGame ==
  /\ squares = EmptyBoard
  /\ isXNext
  /\ ~gameOver
  /\ history = <<>>

\* C4: from every state, handleRestart leads to the initial state (all 9 cells
\* empty, X to move, game-over false, history empty), and that state is stable:
\* once the effect has run on the empty board the flag is still false.
C4_RestartReachesInitialState ==
  /\ [][HandleRestart => InitialGame']_vars
  /\ []((lastStep = "restart" \/ squares = EmptyBoard)
          => (InitialGame /\ ~isGameOver))

\* C4's case: a restart has been handled.
C4_Witness ==
  /\ lastStep = "restart"
  /\ InitialGame

\* C5: calculateWinner returns a result if and only if one of the 8 fixed triples
\* holds three equal non-empty marks; the returned line is one of the 8 triples
\* and its three cells hold the returned winner's mark.
C5_WinnerIffCompletedLine ==
  /\ (winResult # NoWin) <=> HasLine(squares)
  /\ winResult # NoWin =>
       /\ \E k \in DOMAIN FixedTriples : winResult.line = FixedTriples[k]
       /\ winResult.winner \in Marks
       /\ \A n \in 1 .. 3 : squares[winResult.line[n]] = winResult.winner

\* C5's case: a board whose only line is O's second diagonal has been evaluated.
C5_Witness ==
  /\ lastStep = "evaluate"
  /\ winResult = [winner |-> "O", line |-> <<2, 4, 6>>]
  /\ squares[0] = "X"

\* C6: after 9 accepted moves with no line completed the result is Draw: the
\* status is "Draw!", the game-over flag is true once the effect has run, and
\* every further click is ignored.
C6_FullBoardIsDraw ==
  (Filled(squares) /\ ~HasLine(squares)) =>
    /\ Len(history) = 9
    /\ status = "Draw!"
    /\ (~effectPending => gameOver)
    /\ \A idx \in Cells : ClickIgnored(idx)

\* C6's case: a drawn game whose game-over flag has been set and rendered.
C6_Witness ==
  /\ Filled(squares)
  /\ ~HasLine(squares)
  /\ Len(history) = 9
  /\ gameOver
  /\ isGameOver

\* C7: in every state gameOver is true exactly when a line is complete or all 9
\* cells are filled.
C7_GameOverMatchesBoard == gameOver <=> Decided(squares)

\* C8: the clicks 0, 4, 1, 3, 2 from the initial state are accepted in full and
\* give Win(X, [0,1,2]); every later click is ignored.
C8_ExampleGame ==
  history = HistoryAfter(<<0, 4, 1, 3, 2>>) =>
    /\ squares = BoardAfter(<<0, 4, 1, 3, 2>>)
    /\ winResult = [winner |-> "X", line |-> <<0, 1, 2>>]
    /\ (~effectPending => \A idx \in Cells : ClickIgnored(idx))

\* C9: in every interleaving of clicks, re-renders and the effect, no mark is ever
\* placed on a board that already holds a completed line or is full.
C9_NoMarkOnDecidedBoard ==
  [][(\E i \in Cells : squares[i] = Null /\ squares'[i] # Null)
       => ~Decided(squares)]_vars

\* The number of completed triples of a board.
CompletedCount(sq) ==
  Cardinality({k \in DOMAIN FixedTriples : Completed(sq, FixedTriples[k])})

\* C10: on a board with more than one completed line calculateWinner returns
\* the completed line that comes first in the fixed order, with the mark on it.
C10_FirstCompletedLineWins ==
  CompletedCount(squares) > 1 =>
    \A k \in DOMAIN FixedTriples :
      (/\ Completed(squares, FixedTriples[k])
       /\ \A j \in 1 .. (k - 1) : ~Completed(squares, FixedTriples[j]))
        => winResult = [winner |-> squares[FixedTriples[k][1]],
                        line |-> FixedTriples[k]]

\* C10's case: an X row before an O row; the X row is returned.
C10_Witness ==
  /\ lastStep = "evaluate"
  /\ Completed(squares, <<0, 1, 2>>)
  /\ squares[0] = "X"
  /\ Completed(squares, <<3, 4, 5>>)
  /\ squares[3] = "O"
  /\ winResult = [winner |-> "X", line |-> <<0, 1, 2>>]

\* C11: a win has precedence over a draw in the displayed result: the status is
\* "Winner: p" whenever calculateWinner finds winner p, "Draw!" only when the
\* board is full with no winner, and "Next turn: p" otherwise, p being the mark
\* the next accepted click places.
C11_StatusWinBeforeDraw ==
  LET found == calculateWinner(squares)
      shown == status
  IN  IF HasLine(squares)
      THEN found # NoWin /\ shown = "Winner: " \o found.winner
      ELSE IF Filled(squares)
      THEN shown = "Draw!"
      ELSE /\ shown = "Next turn: " \o TurnMark
           /\ \A idx \in Cells :
                ~ClickIgnored(idx) => NextSquares(idx)[idx] = TurnMark

\* C11's case: the 9th move has filled the board and completed a line.
C11_Witness ==
  /\ lastStep = "click"
  /\ Filled(squares)
  /\ HasLine(squares)
  /\ Len(history) = 9
  /\ status = "Winner: X"

\* The number of cells of board sq that hold mark m.
MarkCount(sq, m) == Cardinality({i \in Cells : sq[i] = m})

\* C13: the number of X marks equals the number of O marks or exceeds it by
\* exactly one, and the turn is X exactly when the two counts are equal.
C13_MarkCountsFollowTurn ==
  LET xs == MarkCount(squares, "X")
      os == MarkCount(squares, "O")
  IN  /\ xs = os \/ xs = os + 1
      /\ isXNext <=> (xs = os)

\* C13's case: X has placed one mark more than O and O is to move.
C13_Witness ==
  /\ lastStep = "click"
  /\ MarkCount(squares, "X") = 2
  /\ MarkCount(squares, "O") = 1
  /\ ~isXNext

\* Some completed triple of board sq holds mark m.
HasLineOf(sq, m) ==
  \E k \in DOMAIN FixedTriples :
    Completed(sq, FixedTriples[k]) /\ sq[FixedTriples[k][1]] = m

\* The player who placed the most recent mark: the one who is not to move.
LastMover == IF isXNext THEN "O" ELSE "X"

\* C14: no state has completed lines for both players, and the winner that
\* calculateWinner finds is the player who placed the most recent mark.
C14_OneWinnerTheLastMover ==
  /\ ~(HasLineOf(squares, "X") /\ HasLineOf(squares, "O"))
  /\ calculateWinner(squares) # NoWin
       => calculateWinner(squares).winner = LastMover

\* C15: every game terminates.  Between two restarts at most 9 clicks are accepted
\* (each adds one history entry), no game is decided before the 5th accepted move,
\* an undecided game accepts a click on each of its empty cells, and once the game
\* is decided no click is accepted until a restart.
C15_GameTerminates ==
  /\ [](/\ Len(history) <= 9
        /\ Decided(squares) => Len(history) >= 5
        /\ ~Decided(squares) =>
             \A idx \in Cells : squares[idx] = Null => ~ClickIgnored(idx))
  /\ [][(squares' # squares /\ ~HandleRestart)
          => /\ Len(history') = Len(history) + 1
             /\ ~Decided(squares)]_vars

\* C16: when two clicks are handled against the same rendered snapshot and both
\* pass the guard, no accepted move is lost: the board holds the marks of both
\* clicks, of alternating players, and two history entries are added.
C16_BatchedClicksBothPlaced ==
  [][\A idx1, idx2 \in Cells :
       (/\ idx1 # idx2
        /\ ~ClickIgnored(idx1)
        /\ ~ClickIgnored(idx2)
        /\ HandleTwoClicks(idx1, idx2))
         => /\ squares'[idx1] \in Marks
            /\ squares'[idx2] \in Marks
            /\ squares'[idx1] # squares'[idx2]
            /\ Len(history') = Len(history) + 2]_vars

\* The cells in which boards a and b differ.
DiffCells(a, b) == {i \in Cells : a[i] # b[i]}

\* C17: the history tracks the accepted moves: its length is the number of
\* non-empty cells (so a click that leaves the board unchanged adds no entry), its
\* last entry is the current board, and each entry differs from its predecessor
\* (the first from the empty board) in exactly one cell.
C17_HistoryTracksMoves ==
  /\ Len(history) = Cardinality({i \in Cells : squares[i] # Null})
  /\ history # <<>> => history[Len(history)] = squares
  /\ \A k \in DOMAIN history :
       Cardinality(DiffCells(history[k],
                             IF k = 1 THEN EmptyBoard ELSE history[k - 1])) = 1

\* C17's case: three moves have been accepted and recorded.
C17_Witness ==
  /\ lastStep = "click"
  /\ Len(history) = 3
  /\ history[3] = squares
  /\ history[2] # squares

\* C18: Board and handleSquareClick agree: a cell is rendered disabled exactly when
\* a click on it is ignored; a click on an enabled cell places a mark on it and a
\* click on a disabled cell changes neither board, turn nor history.
C18_DisabledIffIgnored ==
  /\ [](\A idx \in Cells : disabled(idx) <=> ClickIgnored(idx))
  /\ [][LET same == UNCHANGED <<squares, isXNext, history>>
        IN  \A idx \in Cells :
              IF disabled(idx)
              THEN same \/ ~HandleSquareClick(idx)
              ELSE (squares[idx] = Null /\ squares'[idx] \in Marks)
                     \/ ~HandleSquareClick(idx)]_vars

\* C18's case: a won game has been rendered as over with an empty cell left: that
\* cell is disabled and a click on it is ignored.
C18_Witness ==
  /\ lastStep = "render"
  /\ isGameOver
  /\ \E idx \in Cells : squares[idx] = Null /\ disabled(idx) /\ ClickIgnored(idx)

====
